---- MODULE Spec2Model ----
(***************************************************************************)
(* The DP Show bet tracker (app.py): a Streamlit script that is run from   *)
(* top to bottom on every user interaction.  One run loads the ledger,     *)
(* builds the sidebar selectors, filters and sorts the bet history,        *)
(* computes the scoreboard and resolves the selected row in the inspector. *)
(*                                                                         *)
(* Text cells are sequences of one-character strings, so that substring    *)
(* and regular-expression matching and the ordering of strings are         *)
(* computed, not assumed.                                                  *)
(***************************************************************************)
EXTENDS Integers, Sequences, FiniteSets, TLC

VARIABLES
    df,               \* the ledger load_data returned (a sequence of rows)
    load_error,       \* the messages st.error showed in load_data
    stopped,          \* the run ended at st.stop()
    selected_person,  \* value of the "Select Personality" selectbox
    selected_status,  \* value of the "Filter by Status" selectbox
    rows,             \* selection.selection.rows of the history table
    view_df,          \* the filtered and sorted history
    scoreboard,       \* the scoreboard as displayed (stats after sort_values)
    inspector,        \* what the Bet Inspector section did in this run
    ties              \* the sort routine's order among rows with equal keys

vars == <<df, load_error, stopped, selected_person, selected_status, rows,
          view_df, scoreboard, inspector, ties>>

-----------------------------------------------------------------------------
(* Characters and strings *)

Range(s) == {s[i] : i \in 1..Len(s)}

Upper == <<"A","B","C","D","E","F","G","H","I","J","K","L","M",
           "N","O","P","Q","R","S","T","U","V","W","X","Y","Z">>
Lower == <<"a","b","c","d","e","f","g","h","i","j","k","l","m",
           "n","o","p","q","r","s","t","u","v","w","x","y","z">>

Chars == Range(Upper) \cup Range(Lower) \cup {" ", "&", "'", "."}

\* Code point of a character (the characters the ledger uses).
OrdTable ==
    [c \in Chars |->
        CASE c = " " -> 32
          [] c = "&" -> 38
          [] c = "'" -> 39
          [] c = "." -> 46
          [] \E i \in 1..26 : Upper[i] = c ->
                64 + (CHOOSE i \in 1..26 : Upper[i] = c)
          [] \E i \in 1..26 : Lower[i] = c ->
                96 + (CHOOSE i \in 1..26 : Lower[i] = c)]

Ord(c) == OrdTable[c]

\* Case folding of one character, as re.IGNORECASE compares.
LowerTable ==
    [c \in Chars |->
        IF \E i \in 1..26 : Upper[i] = c
        THEN Lower[CHOOSE i \in 1..26 : Upper[i] = c]
        ELSE c]

lower(c) == LowerTable[c]

\* Python's s < t on str: lexicographic by code point.
RECURSIVE str_lt(_, _)
str_lt(s, t) ==
    IF t = <<>> THEN FALSE
    ELSE IF s = <<>> THEN TRUE
    ELSE IF Ord(Head(s)) # Ord(Head(t)) THEN Ord(Head(s)) < Ord(Head(t))
    ELSE str_lt(Tail(s), Tail(t))

\* Python's `sub in s` on str: literal, case-sensitive substring.
py_in(sub, s) ==
    \E i \in 1..(Len(s) - Len(sub) + 1) :
        \A j \in 1..Len(sub) : s[i + j - 1] = sub[j]

\* Series.str.contains(pat, case=False, na=False) on one cell: pat is a
\* regular expression searched anywhere in the cell, ignoring case.  Of the
\* metacharacters only "." occurs in the patterns the app builds; it
\* matches any character.
str_contains(cell, pat) ==
    \E i \in 1..(Len(cell) - Len(pat) + 1) :
        \A j \in 1..Len(pat) :
            \/ pat[j] = "."
            \/ lower(cell[i + j - 1]) = lower(pat[j])

\* str.split()[0]: the text before the first blank.
RECURSIVE first_token(_)
first_token(s) ==
    IF s = <<>> \/ Head(s) = " " THEN <<>>
    ELSE <<Head(s)>> \o first_token(Tail(s))

\* sorted(list(S)) for a set of strings.
RECURSIVE sorted(_)
sorted(S) ==
    IF S = {} THEN <<>>
    ELSE LET m == CHOOSE x \in S : \A y \in S \ {x} : str_lt(x, y)
         IN <<m>> \o sorted(S \ {m})

-----------------------------------------------------------------------------
(* The configuration (app.py, lines 7-8) and the texts of the ledger *)

Dan_Patrick    == <<"D","a","n"," ","P","a","t","r","i","c","k">>
Paulie_Pabst   == <<"P","a","u","l","i","e"," ","P","a","b","s","t">>
Todd_Fritz     == <<"T","o","d","d"," ","F","r","i","t","z">>
Seton_OConnor  == <<"S","e","t","o","n"," ","O","'","C","o","n","n","o","r">>
Marvin_Prince  == <<"M","a","r","v","i","n"," ","P","r","i","n","c","e">>
Dylan          == <<"D","y","l","a","n">>

MAIN_CAST == <<Dan_Patrick, Paulie_Pabst, Todd_Fritz, Seton_OConnor,
               Marvin_Prince, Dylan>>

\* Raw spellings found in ledger cells.
Paul_S   == <<"P","a","u","l"," ","S",".">>
Todd     == <<"T","o","d","d">>
Marvin   == <<"M","a","r","v","i","n">>
Seton    == <<"S","e","t","o","n">>
Jordan   == <<"J","o","r","d","a","n">>

All      == <<"A","l","l">>
Paid     == <<"P","a","i","d">>
Unpaid   == <<"U","n","p","a","i","d">>
Pending  == <<"P","e","n","d","i","n","g">>
Void     == <<"V","o","i","d">>

\* A cell read_csv found empty, and the datetime to_datetime could not parse.
NaN == <<"NaN">>
NaT == <<>>

-----------------------------------------------------------------------------
(* The ledger file FULL_LEDGER.csv as read_csv hands it over.  A text cell *)
(* is a string or NaN; a date cell is NaN or a one-element tuple holding   *)
(* the cell's text.                                                        *)

MaxRows == 3   \* most rows of a ledger file

RawRow(bet_id, date, proposer, acceptor, winner, loser, status) ==
    [BetID |-> bet_id, BetDate |-> date, Proposer |-> proposer,
     Acceptor |-> acceptor, Winner |-> winner, Loser |-> loser,
     Status |-> status]

\* The rows ledger files are made of.  The first three are the rows
\* (winner, loser, status) = (Paul S., Todd, Unpaid), (Dan Patrick, Marvin,
\* Paid) and (empty, empty, Pending).
Pool == <<
    RawRow("W-1", <<"2024-01-05">>, Paul_S, Todd, Paul_S, Todd, Unpaid),
    RawRow("W-2", <<"2024-01-03">>, Dan_Patrick, Marvin, Dan_Patrick, Marvin, Paid),
    RawRow("W-3", <<"tbd">>, Seton, Jordan, NaN, NaN, Pending),
    RawRow("W-4", <<"2024-01-04">>, Todd_Fritz, Dylan, Dylan, Todd_Fritz, Void),
    RawRow("W-5", NaN, Jordan, Dan_Patrick, Jordan, Dan_Patrick, Unpaid) >>

\* The rows of Pool at the positions S, in file order.
RECURSIVE RowsAt(_, _)
RowsAt(S, i) ==
    IF i > Len(Pool) THEN <<>>
    ELSE (IF i \in S THEN <<Pool[i]>> ELSE <<>>) \o RowsAt(S, i + 1)

CsvFile(kind, has_bet_id, raw_rows) ==
    [kind |-> kind, has_bet_id |-> has_bet_id, rows |-> raw_rows]

\* kind "ok": read_csv and the date conversion succeed; "unreadable":
\* read_csv raises (no file, not a CSV); "no_date_column": df['Bet Date']
\* raises KeyError.
Sources ==
    {CsvFile("ok", FALSE, RowsAt(S, 1)) :
        S \in {T \in SUBSET (1..Len(Pool)) : Cardinality(T) <= MaxRows}}
    \cup {CsvFile("ok", TRUE, RowsAt({1, 2, 3}, 1)),
          CsvFile("unreadable", FALSE, <<>>),
          CsvFile("no_date_column", FALSE, RowsAt({1, 2}, 1))}

-----------------------------------------------------------------------------
(* load_data (app.py, lines 11-31) *)

fillna(cell) == IF cell = NaN THEN <<>> ELSE cell

\* pd.to_datetime(..., errors='coerce') on one cell: the day of a date the
\* parser reads, NaT for anything else (the empty text fillna left too).
to_datetime(cell) ==
    CASE cell = <<"2024-01-03">> -> <<3>>
      [] cell = <<"2024-01-04">> -> <<4>>
      [] cell = <<"2024-01-05">> -> <<5>>
      [] OTHER -> NaT

\* f"BET-{i:03d}"
bet_id_format(i) ==
    IF i < 10 THEN "BET-00" \o ToString(i)
    ELSE IF i < 100 THEN "BET-0" \o ToString(i)
    ELSE "BET-" \o ToString(i)

load_data(file) ==
    IF file.kind # "ok"
    THEN [df |-> <<>>, error |-> <<"Error loading data">>]
    ELSE [df |-> [i \in 1..Len(file.rows) |->
                    LET r == file.rows[i] IN
                    [BetID    |-> IF file.has_bet_id THEN r.BetID
                                  ELSE bet_id_format(i),
                     BetDate  |-> to_datetime(fillna(r.BetDate)),
                     Proposer |-> fillna(r.Proposer),
                     Acceptor |-> fillna(r.Acceptor),
                     Winner   |-> fillna(r.Winner),
                     Loser    |-> fillna(r.Loser),
                     Status   |-> fillna(r.Status)]],
          error |-> <<>>]

-----------------------------------------------------------------------------
(* The sidebar (app.py, lines 36-54) *)

all_people(d) ==
    sorted({d[i].Proposer : i \in 1..Len(d)} \cup {d[i].Acceptor : i \in 1..Len(d)})

\* The main cast, then everyone else in the data whose name neither
\* contains nor is contained in a main cast name.
sorted_people(d) ==
    MAIN_CAST \o
    SelectSeq(all_people(d),
              LAMBDA p : ~ \E m \in 1..Len(MAIN_CAST) :
                             py_in(MAIN_CAST[m], p) \/ py_in(p, MAIN_CAST[m]))

person_options(d) == <<All>> \o sorted_people(d)

status_options(d) == <<All>> \o sorted({d[i].Status : i \in 1..Len(d)})

-----------------------------------------------------------------------------
(* Filter logic and sort of the history (app.py, lines 56-73) *)

mask(r, person) ==
    \/ str_contains(r.Proposer, person)
    \/ str_contains(r.Acceptor, person)
    \/ str_contains(r.Winner, person)
    \/ str_contains(r.Loser, person)

filter_person(d, person) ==
    IF person # All THEN SelectSeq(d, LAMBDA r : mask(r, person)) ELSE d

filter_status(v, status) ==
    IF status # All THEN SelectSeq(v, LAMBDA r : r.Status = status) ELSE v

\* Row a comes strictly before row b under
\* sort_values(by=["Status", "Bet Date"], ascending=[False, False]):
\* Status descending as strings, then Bet Date descending, NaT last.
sorts_before(a, b) ==
    \/ str_lt(b.Status, a.Status)
    \/ /\ a.Status = b.Status
       /\ a.BetDate # NaT
       /\ (b.BetDate = NaT \/ a.BetDate[1] > b.BetDate[1])

\* x put into the sorted sequence s behind every row it does not come
\* strictly before: the sort on several columns is stable.
RECURSIVE insert_row(_, _)
insert_row(s, x) ==
    IF s = <<>> THEN <<x>>
    ELSE IF \A k \in 1..Len(s) : sorts_before(x, s[k])
         THEN <<x>> \o s
         ELSE <<Head(s)>> \o insert_row(Tail(s), x)

RECURSIVE sort_values(_)
sort_values(v) ==
    IF v = <<>> THEN <<>>
    ELSE insert_row(sort_values(SubSeq(v, 1, Len(v) - 1)), v[Len(v)])

view_of(d, person, status) ==
    sort_values(filter_status(filter_person(d, person), status))

-----------------------------------------------------------------------------
(* The scoreboard (app.py, lines 75-102) *)

p_df_filtered(d, v) == v

\* The frame the counts are taken over: p_df = df.
p_df(d, v) == d

\* len(p_df[p_df['Winner'].str.contains(first_name, case=False, na=False)])
wins_of(d, first_name) ==
    Len(SelectSeq(d, LAMBDA r : str_contains(r.Winner, first_name)))

losses_of(d, first_name) ==
    Len(SelectSeq(d, LAMBDA r : str_contains(r.Loser, first_name)))

unpaid_any_loser(d, first_name) ==
    Len(SelectSeq(d, LAMBDA r : r.Status = Unpaid))

unpaid_of(d, first_name) ==
    Len(SelectSeq(d, LAMBDA r : str_contains(r.Loser, first_name)
                               /\ r.Status = Unpaid))

pct_not_scaled(wins, total) == IF total > 0 THEN <<wins, total>> ELSE <<0, 1>>

\* pct = (wins / total * 100) if total > 0 else 0.0, as the fraction
\* <<numerator, denominator>>.
pct_of(wins, total) == IF total > 0 THEN <<wins * 100, total>> ELSE <<0, 1>>

\* f"{pct:.1f}": the tenths of a percent nearest to pct.
format_1f(pct) == (20 * pct[1] + pct[2]) \div (2 * pct[2])

\* One pass of the loop over MAIN_CAST: the row appended to stats, with
\* the value of pct beside its formatted text.
stats_row(person, d) ==
    LET first_name == first_token(person)
        wins   == wins_of(d, first_name)
        losses == losses_of(d, first_name)
        unpaid == unpaid_of(d, first_name)
        total  == wins + losses
        pct    == pct_of(wins, total)
    IN [Name |-> person, Wins |-> wins, Losses |-> losses, pct |-> pct,
        WinPct |-> format_1f(pct), UnpaidDebts |-> unpaid]

stats_of(d, v) ==
    [k \in 1..Len(MAIN_CAST) |-> stats_row(MAIN_CAST[k], p_df(d, v))]

\* DataFrame.sort_values("Wins", ascending=False) with the default
\* kind='quicksort', which is not a stable sort: the rows come out
\* descending in Wins, and rows with equal Wins in an order that is the
\* sort routine's own.  The routine is a fixed function of its input, so a
\* session sees one order of preference among rows with equal keys: the
\* rows are taken in that order and sorted stably.
RECURSIVE insert_wins(_, _)
insert_wins(s, x) ==
    IF s = <<>> THEN <<x>>
    ELSE IF \A k \in 1..Len(s) : x.Wins > s[k].Wins
         THEN <<x>> \o s
         ELSE <<Head(s)>> \o insert_wins(Tail(s), x)

RECURSIVE sort_by_wins_upto(_, _, _)
sort_by_wins_upto(stats, order, n) ==
    IF n = 0 THEN <<>>
    ELSE insert_wins(sort_by_wins_upto(stats, order, n - 1), stats[order[n]])

sort_by_wins(stats, order) == sort_by_wins_upto(stats, order, Len(stats))

\* The orders among equal keys of the sort routines modelled: the order of
\* the rows themselves (a routine that happens to be stable on six rows),
\* their reverse, and one that moves the first row behind the others.
RosterOrder  == [k \in 1..Len(MAIN_CAST) |-> k]
ReverseOrder == [k \in 1..Len(MAIN_CAST) |-> Len(MAIN_CAST) + 1 - k]
RotatedOrder == [k \in 1..Len(MAIN_CAST) |-> (k % Len(MAIN_CAST)) + 1]
TieOrders == {RosterOrder, ReverseOrder, RotatedOrder}

-----------------------------------------------------------------------------
(* The history table and the inspector (app.py, lines 106-164) *)

\* view_df[display_cols]: the columns of the table, every row kept.
display_df(v) ==
    [k \in 1..Len(v) |->
        [BetID |-> v[k].BetID, BetDate |-> v[k].BetDate,
         Proposer |-> v[k].Proposer, Acceptor |-> v[k].Acceptor,
         Winner |-> v[k].Winner, Loser |-> v[k].Loser, Status |-> v[k].Status]]

Info == [kind |-> "info", BetID |-> ""]
NotRendered == [kind |-> "not_rendered", BetID |-> ""]
Raised(type) == [kind |-> type, BetID |-> ""]

\* The Bet Inspector for the selection sel (0-based row positions) over
\* the view v: the row it shows, the hint to select a bet, or the
\* exception that ends the run.
inspect(v, sel) ==
    IF Len(sel) > 0
    THEN LET selected_index == sel[1] IN
         IF selected_index >= Len(display_df(v))
         THEN Raised("IndexError")         \* display_df.iloc[selected_index]
         ELSE LET selected_bet_id == display_df(v)[selected_index + 1].BetID
                  matches == SelectSeq(v, LAMBDA r : r.BetID = selected_bet_id)
                  row == matches[1]
              IN IF row.BetDate = NaT
                 THEN Raised("ValueError") \* NaT.strftime
                 ELSE [kind |-> "record", BetID |-> row.BetID]
    ELSE Info

-----------------------------------------------------------------------------
(* One run of the script, and the user's interactions *)

\* The script from the sidebar down (lines 36-164), with the widgets at
\* person, status and sel.
Render(person, status, sel) ==
    LET v == view_of(df, person, status) IN
    /\ selected_person' = person
    /\ selected_status' = status
    /\ rows' = sel
    /\ view_df' = v
    /\ scoreboard' = sort_by_wins(stats_of(df, v), ties)
    /\ inspector' = inspect(v, sel)
    /\ UNCHANGED <<df, load_error, stopped, ties>>

never_stops(d) == FALSE

\* if df.empty: st.stop()
stops(d) == d = <<>>

\* The first run of a session: load_data, then the page with every widget
\* at its default.
Init ==
    \E file \in Sources :
        LET loaded == load_data(file) IN
        /\ ties \in TieOrders
        /\ df = loaded.df
        /\ load_error = loaded.error
        /\ stopped = stops(loaded.df)
        /\ selected_person = All
        /\ selected_status = All
        /\ rows = <<>>
        /\ IF stops(loaded.df)
           THEN /\ view_df = <<>>
                /\ scoreboard = <<>>
                /\ inspector = NotRendered
           ELSE LET v == view_of(loaded.df, All, All) IN
                /\ view_df = v
                /\ scoreboard = sort_by_wins(stats_of(loaded.df, v), ties)
                /\ inspector = inspect(v, <<>>)

\* The row selection the table reports in the run after a selector
\* changed.  st.dataframe keeps the selection of a table it recognises
\* from one run to the next; whether a table with other rows is
\* recognised is Streamlit's business: the positions are kept, or the
\* selection starts empty.
selection_after(old_view, new_view, sel) ==
    IF display_df(new_view) = display_df(old_view) THEN {sel} ELSE {sel, <<>>}

SelectPerson ==
    /\ ~stopped
    /\ \E person \in Range(person_options(df)) :
          /\ person # selected_person
          /\ \E sel \in selection_after(view_df,
                    view_of(df, person, selected_status), rows) :
                Render(person, selected_status, sel)

SelectStatus ==
    /\ ~stopped
    /\ \E status \in Range(status_options(df)) :
          /\ status # selected_status
          /\ \E sel \in selection_after(view_df,
                    view_of(df, selected_person, status), rows) :
                Render(selected_person, status, sel)

\* A click on a row of the history table (single-row mode).
SelectRow ==
    /\ ~stopped
    /\ \E i \in 0..(Len(view_df) - 1) :
          /\ rows # <<i>>
          /\ Render(selected_person, selected_status, <<i>>)

\* A click on the selected row clears the selection.
DeselectRow ==
    /\ ~stopped
    /\ rows # <<>>
    /\ Render(selected_person, selected_status, <<>>)

Next == SelectPerson \/ SelectStatus \/ SelectRow \/ DeselectRow

Spec == Init /\ [][Next]_vars

-----------------------------------------------------------------------------
(* What the properties below are stated with *)

\* The ledger of the three rows (Paul S., Todd, Unpaid), (Dan Patrick,
\* Marvin, Paid), (empty, empty, Pending), as loaded.
ScenarioDf == load_data(CsvFile("ok", FALSE, RowsAt({1, 2, 3}, 1))).df

\* The canonical roster entry a raw name stands for: the keyword rules, the
\* first that applies; a name no rule applies to stands for itself.
canonical(raw) ==
    CASE str_contains(raw, <<"p","a","u","l">>) -> Paulie_Pabst
      [] str_contains(raw, <<"t","o","d","d">>)
         \/ str_contains(raw, <<"f","r","i","t","z">>) -> Todd_Fritz
      [] str_contains(raw, <<"s","e","t","o","n">>) -> Seton_OConnor
      [] str_contains(raw, <<"m","a","r","v","i","n">>) -> Marvin_Prince
      [] str_contains(raw, <<"d","a","n">>)
         /\ str_contains(raw, <<"p","a","t","r","i","c","k">>) -> Dan_Patrick
      [] OTHER -> raw

ScoreRow(name) ==
    scoreboard[CHOOSE k \in 1..Len(scoreboard) : scoreboard[k].Name = name]

BetIDs(v) == [k \in 1..Len(v) |-> v[k].BetID]

RosterIndex(name) == CHOOSE k \in 1..Len(MAIN_CAST) : MAIN_CAST[k] = name

\* person appears in row r in one of the four roles.
appears(person, r) ==
    \/ canonical(r.Proposer) = canonical(person)
    \/ canonical(r.Acceptor) = canonical(person)
    \/ canonical(r.Winner) = canonical(person)
    \/ canonical(r.Loser) = canonical(person)

FilterChanged ==
    selected_person' # selected_person \/ selected_status' # selected_status

-----------------------------------------------------------------------------
(* The properties *)

\* C1: for every roster entry p the scoreboard reports wins = the number of
\* rows whose winner stands for p, losses = the number whose loser stands
\* for p, unpaid = the number whose loser stands for p and whose status is
\* Unpaid; for the three-row ledger: Paulie Pabst 1 win and 0 losses, Todd
\* Fritz 0 wins, 1 loss, 1 unpaid, Dan Patrick 1 win, Marvin Prince 1 loss
\* and 0 unpaid.
C1_ScoreboardCounts ==
    ~stopped =>
        /\ \A k \in 1..Len(MAIN_CAST) :
              LET p == MAIN_CAST[k] IN
              /\ ScoreRow(p).Wins =
                    Len(SelectSeq(df, LAMBDA r : canonical(r.Winner) = p))
              /\ ScoreRow(p).Losses =
                    Len(SelectSeq(df, LAMBDA r : canonical(r.Loser) = p))
              /\ ScoreRow(p).UnpaidDebts =
                    Len(SelectSeq(df, LAMBDA r : canonical(r.Loser) = p
                                                 /\ r.Status = Unpaid))
        /\ df = ScenarioDf =>
              /\ ScoreRow(Paulie_Pabst).Wins = 1
              /\ ScoreRow(Paulie_Pabst).Losses = 0
              /\ ScoreRow(Todd_Fritz).Wins = 0
              /\ ScoreRow(Todd_Fritz).Losses = 1
              /\ ScoreRow(Todd_Fritz).UnpaidDebts = 1
              /\ ScoreRow(Dan_Patrick).Wins = 1
              /\ ScoreRow(Marvin_Prince).Losses = 1
              /\ ScoreRow(Marvin_Prince).UnpaidDebts = 0

\* C2: with a person other than "All" selected, the history holds exactly
\* the rows in which the person appears as proposer, acceptor, winner or
\* loser and whose status is the selected one (or any, for "All"); for
\* the three-row ledger, Todd Fritz and status "All" that is the first row.
C2_FilterSelects ==
    (~stopped /\ selected_person # All) =>
        /\ Range(BetIDs(view_df)) =
              {df[k].BetID : k \in
                  {j \in 1..Len(df) :
                      /\ appears(selected_person, df[j])
                      /\ (selected_status = All
                            \/ df[j].Status = selected_status)}}
        /\ Len(view_df) = Cardinality(Range(BetIDs(view_df)))
        /\ (df = ScenarioDf /\ selected_person = Todd_Fritz
               /\ selected_status = All) =>
              BetIDs(view_df) = <<"BET-001">>

\* C3: once the inspector shows a row, a change of the person or status
\* selector that takes the row out of the history leaves the inspector
\* showing that same row.
C3_DetailSurvivesFilter ==
    [][(/\ inspector.kind = "record"
        /\ FilterChanged
        /\ inspector.BetID \notin Range(BetIDs(view_df')))
       => inspector' = inspector]_vars

C5_UnpaidFirst ==
    \A a, b \in 1..Len(view_df) :
        (view_df[a].Status = Unpaid /\ view_df[b].Status # Unpaid) => a < b

\* C6 as stated: after a failed load the page still shows the scoreboard
\* with zero wins, losses, unpaid and 0.0 percent for every roster entry,
\* an empty history and the inspector's "nothing selected" hint.
C6_DownstreamRunsOnEmpty ==
    load_error # <<>> =>
        /\ Len(load_error) = 1
        /\ df = <<>>
        /\ Len(scoreboard) = Len(MAIN_CAST)
        /\ \A k \in 1..Len(scoreboard) :
              /\ scoreboard[k].Wins = 0
              /\ scoreboard[k].Losses = 0
              /\ scoreboard[k].UnpaidDebts = 0
              /\ scoreboard[k].WinPct = 0
        /\ view_df = <<>>
        /\ inspector = Info

\* C6 as amended: after a failed load the error is shown once, the ledger
\* is empty and the run stops before the sidebar: no scoreboard, no
\* history and no inspector is rendered, and nothing raises.
C6_StopsOnEmpty ==
    load_error # <<>> =>
        /\ Len(load_error) = 1
        /\ df = <<>>
        /\ stopped
        /\ scoreboard = <<>>
        /\ view_df = <<>>
        /\ inspector = NotRendered

C6_Witness == load_error # <<>> /\ df = <<>> /\ stopped

\* C7: the scoreboard is the same after every change of the person or
\* status selector and every row selection: it is computed over the whole
\* ledger, never over the filtered history.
C7_ScoreboardIgnoresFilter ==
    [][~stopped => scoreboard' = scoreboard]_vars

\* A filter is active, a row is selected, and a win the scoreboard counts
\* belongs to a row the filter left out.
C7_Witness ==
    /\ ~stopped
    /\ selected_person # All
    /\ selected_status # All
    /\ rows # <<>>
    /\ Len(view_df) < Len(df)
    /\ \E k \in 1..Len(scoreboard) :
          /\ scoreboard[k].Wins > 0
          /\ \A j \in 1..Len(view_df) :
                ~str_contains(view_df[j].Winner, first_token(scoreboard[k].Name))

\* C8: the scoreboard rows are in descending order of wins, and rows with
\* equal wins are in roster order.
C8_StableByWins ==
    ~stopped =>
        \A a, b \in 1..Len(scoreboard) :
            a < b =>
                \/ scoreboard[a].Wins > scoreboard[b].Wins
                \/ /\ scoreboard[a].Wins = scoreboard[b].Wins
                   /\ RosterIndex(scoreboard[a].Name)
                        < RosterIndex(scoreboard[b].Name)

\* C9: for every roster entry the win percentage lies in [0, 100], is
\* wins / (wins + losses) * 100 when wins + losses > 0 and is 0.0 when
\* wins + losses = 0; no division by zero is attempted.
C9_WinPct ==
    \A k \in 1..Len(scoreboard) :
        LET r == scoreboard[k]
            total == r.Wins + r.Losses
        IN /\ r.pct[2] > 0
           /\ 0 <= r.pct[1] /\ r.pct[1] <= 100 * r.pct[2]
           /\ total > 0 => r.pct[1] * total = r.Wins * 100 * r.pct[2]
           /\ total = 0 => r.pct[1] = 0 /\ r.WinPct = 0
           /\ 0 <= r.WinPct /\ r.WinPct <= 1000

\* One entry has won and lost, another has no decided bet.
C9_Witness ==
    /\ \E k \in 1..Len(scoreboard) :
          scoreboard[k].Wins > 0 /\ scoreboard[k].Losses > 0
    /\ \E k \in 1..Len(scoreboard) :
          scoreboard[k].Wins + scoreboard[k].Losses = 0

\* C10: for every roster entry unpaid <= losses, hence
\* wins + losses >= unpaid.
C10_UnpaidWithinLosses ==
    \A k \in 1..Len(scoreboard) :
        /\ scoreboard[k].UnpaidDebts <= scoreboard[k].Losses
        /\ scoreboard[k].Wins + scoreboard[k].Losses >= scoreboard[k].UnpaidDebts

\* One entry has an unpaid loss and a loss that is not unpaid, while the
\* ledger holds an unpaid row that is not a loss of another entry.
C10_Witness ==
    /\ \E k \in 1..Len(scoreboard) :
          /\ scoreboard[k].UnpaidDebts > 0
          /\ scoreboard[k].Losses > scoreboard[k].UnpaidDebts
    /\ \E k \in 1..Len(scoreboard) :
          /\ scoreboard[k].Losses = 0
          /\ \E j \in 1..Len(df) : df[j].Status = Unpaid

====
